---- MODULE Spec2Model ----
(***************************************************************************)
(* Signaling server of src/app.py: the in-memory room registry `rooms`,    *)
(* the Socket.IO room subscriptions kept by join_room/leave_room, and one  *)
(* action per event handler.  Every handler runs to completion as one      *)
(* step, except in SpecInterleaved, where a handler can be suspended at an *)
(* emit and the handlers of other connections run in between.  The events  *)
(* a handler emits are recorded, with the connections that receive each of *)
(* them, in `out`.                                                         *)
(***************************************************************************)
EXTENDS Integers, FiniteSets, Sequences, TLC

\* ---------------------------------------------------------------- bounds
\* connections and user ids of the general specification
MaxSids == 2
MaxUsers == 2

\* src/app.py:90  `if len(rooms[room_id]) >= 6`
MAX_ROOM_SIZE == 6

Sids == 1..MaxSids
UserIds == 1..MaxUsers
RoomIds == {"r1"}
Usernames == {"ann"}

\* The room-filling scenario: connection 1 can fill the room by itself, with
\* one user id more than the room holds; connection 2 competes for an id that
\* is taken and for the id that is one too many.
CapSids == {1, 2}
CapUserIds == 1..(MAX_ROOM_SIZE + 1)

AllSids == Sids \cup CapSids

VARIABLES
    rooms,   \* the dict `rooms`: room_id -> (user_id -> [username, sid])
    conn,    \* transport state of every connection: "new", "open", "closed"
    sio,     \* Socket.IO rooms each connection entered with join_room
    last,    \* the handler that ran last and the event data it was given
    pre,     \* `rooms` as that handler found it
    out,     \* the events that handler emitted, in order
    pend     \* the handler each connection is suspended in, at an emit

vars == <<rooms, conn, sio, last, pre, out, pend>>

\* ------------------------------------------------------- dict operations
EmptyDict == <<>>

\* d[k] = v
DictSet(d, k, v) == [x \in DOMAIN d \cup {k} |-> IF x = k THEN v ELSE d[x]]

\* del d[k]
DictDel(d, k) == [x \in DOMAIN d \ {k} |-> d[x]]

\* len(d)
DictLen(d) == Cardinality(DOMAIN d)

\* ------------------------------------------------------------- transport
\* The connections a Socket.IO room named by a room id delivers to: the
\* open connections that entered it with join_room.
InRoom(c, subs, room_id) ==
    {s \in DOMAIN c : c[s] = "open" /\ room_id \in subs[s]}

\* The connections the personal room of connection `sid` delivers to.  Room
\* ids are taken to differ from every connection id, so that join_room never
\* enters a personal room.
InPersonal(c, sid) == {s \in DOMAIN c : s = sid /\ c[s] = "open"}

\* emit(event, data, broadcast=True): to every open connection
EmitSelf_broadcast(c, sid, event, data) ==
    [event |-> event, to |-> {s \in DOMAIN c : c[s] = "open"}, data |-> data]

\* emit(event, data): to the connection whose event is being handled
EmitSelf(c, sid, event, data) ==
    [event |-> event, to |-> InPersonal(c, sid), data |-> data]

\* the same emit without skip_sid
EmitRoomSkip_noskip(c, subs, room_id, skip, event, data) ==
    [event |-> event, to |-> InRoom(c, subs, room_id), data |-> data]

\* emit(event, data, room=room_id, skip_sid=skip)
EmitRoomSkip(c, subs, room_id, skip, event, data) ==
    [event |-> event, to |-> InRoom(c, subs, room_id) \ {skip}, data |-> data]

\* emit(event, data, room=room_id)
EmitRoom(c, subs, room_id, event, data) ==
    [event |-> event, to |-> InRoom(c, subs, room_id), data |-> data]

\* the emit to a personal room reaching every open connection
EmitSid_all(c, target_sid, event, data) ==
    [event |-> event, to |-> {s \in DOMAIN c : c[s] = "open"}, data |-> data]

\* emit(event, data, room=target_sid)
EmitSid(c, target_sid, event, data) ==
    [event |-> event, to |-> InPersonal(c, target_sid), data |-> data]

\* What `last` keeps of a handler: its event, request.sid and the event data.
Handler(op, sid, room_id, user_id, username) ==
    [op |-> op, sid |-> sid, room |-> room_id, user |-> user_id, name |-> username]

\* a handler whose event carries no room, user or name (0 and "" stand for none)
Bare(op, sid) == Handler(op, sid, "", 0, "")

\* ------------------------------------------------------------------ init
\* a connection that is not inside a handler
Idle == [at |-> "idle", room |-> "", user |-> 0, name |-> "", held |-> ""]

Init ==
    /\ rooms = EmptyDict
    /\ conn = [s \in AllSids |-> "new"]
    /\ sio = [s \in AllSids |-> {}]
    /\ last = Bare("start", 0)
    /\ pre = EmptyDict
    /\ out = <<>>
    /\ pend = [s \in AllSids |-> Idle]

\* ---------------------------------------------------------------- connect
\* The transport invents the connection id: the ids are named in the order
\* in which the connections arrive.
handle_connect(sid) ==
    /\ conn[sid] = "new"
    /\ \A s \in DOMAIN conn : s < sid => conn[s] # "new"
    /\ conn' = [conn EXCEPT ![sid] = "open"]
    /\ last' = Bare("connect", sid)
    /\ pre' = rooms
    /\ UNCHANGED pend
    /\ out' = <<>>
    /\ UNCHANGED <<rooms, sio>>

\* -------------------------------------------------------------- join-room
\* rooms after lines 85-86
JoinCreated(reg, room_id) ==
    IF room_id \notin DOMAIN reg THEN DictSet(reg, room_id, EmptyDict) ELSE reg

\* the capacity test with > for >=
RoomIsFull_gt(room) == DictLen(room) > MAX_ROOM_SIZE

\* the capacity test of line 90
RoomIsFull(room) == DictLen(room) >= MAX_ROOM_SIZE

\* existing_users of lines 95-98
ExistingUsers(room) ==
    {[userId |-> uid, username |-> room[uid].username] : uid \in DOMAIN room}

\* setdefault for the assignment of line 101: an existing entry is kept
JoinInserted_setdefault(reg, room_id, user_id, username, sid) ==
    IF user_id \in DOMAIN reg[room_id]
    THEN reg
    ELSE DictSet(reg, room_id,
                 DictSet(reg[room_id], user_id, [username |-> username, sid |-> sid]))

\* rooms after lines 101-104
JoinInserted(reg, room_id, user_id, username, sid) ==
    DictSet(reg, room_id,
            DictSet(reg[room_id], user_id, [username |-> username, sid |-> sid]))

\* `rooms` when handle_join_room returns
JoinRooms(reg, sid, room_id, user_id, username) ==
    LET created == JoinCreated(reg, room_id) IN
    IF RoomIsFull(created[room_id])
    THEN created
    ELSE JoinInserted(created, room_id, user_id, username, sid)

\* the two emits with existing_users built after the insertion
JoinEmits_late(c, subs, before, after, sid, room_id, user_id, username) ==
    << EmitSelf(c, sid, "existing-users", ExistingUsers(after)),
       EmitRoomSkip(c, subs, room_id, sid, "user-joined",
                    [userId |-> user_id, username |-> username]) >>

\* The two emits of lines 110-116; `before` is the room when existing_users
\* was built (line 95), `after` the room with the joiner in it.
JoinEmits(c, subs, before, after, sid, room_id, user_id, username) ==
    << EmitSelf(c, sid, "existing-users", ExistingUsers(before)),
       EmitRoomSkip(c, subs, room_id, sid, "user-joined",
                    [userId |-> user_id, username |-> username]) >>

handle_join_room(sid, room_id, user_id, username) ==
    /\ conn[sid] = "open"
    /\ last' = Handler("join-room", sid, room_id, user_id, username)
    /\ pre' = rooms
    /\ UNCHANGED pend
    /\ UNCHANGED conn
    /\ rooms' = JoinRooms(rooms, sid, room_id, user_id, username)
    /\ LET created == JoinCreated(rooms, room_id) IN
       IF RoomIsFull(created[room_id])
       THEN /\ out' = <<EmitSelf(conn, sid, "room-full", "Room is full")>>
            /\ UNCHANGED sio
       ELSE LET subs == [sio EXCEPT ![sid] = @ \cup {room_id}]
                inserted == JoinInserted(created, room_id, user_id, username, sid)
            IN  /\ sio' = subs
                /\ out' = JoinEmits(conn, subs, created[room_id], inserted[room_id],
                                    sid, room_id, user_id, username)

\* ------------------------------------------------------------- leave-room
\* rooms[room_id].clear() for the del of line 129
LeaveRemoved_all(reg, room_id, user_id) == DictSet(reg, room_id, EmptyDict)

\* rooms after line 129 (and 51)
LeaveRemoved(reg, room_id, user_id) ==
    DictSet(reg, room_id, DictDel(reg[room_id], user_id))

\* no cleanup of the emptied room
CleanedUp_never(reg, room_id) == reg

\* rooms after the cleanup of lines 142-143 (and 62-63)
CleanedUp(reg, room_id) ==
    IF DictLen(reg[room_id]) = 0 THEN DictDel(reg, room_id) ELSE reg

\* `rooms` when handle_leave_room returns
LeaveRooms(reg, room_id, user_id) ==
    IF room_id \in DOMAIN reg /\ user_id \in DOMAIN reg[room_id]
    THEN CleanedUp(LeaveRemoved(reg, room_id, user_id), room_id)
    ELSE reg

\* the Socket.IO rooms after leave_room(room_id) of line 131
LeaveSubs(subs, sid, room_id) == [subs EXCEPT ![sid] = @ \ {room_id}]

\* what handle_leave_room emits (lines 134-137): the sender has left the
\* Socket.IO room when user-left goes to it
LeaveEmits(reg, c, subs, sid, room_id, user_id) ==
    IF room_id \in DOMAIN reg /\ user_id \in DOMAIN reg[room_id]
    THEN <<EmitRoom(c, LeaveSubs(subs, sid, room_id), room_id, "user-left",
                    [userId |-> user_id,
                     username |-> reg[room_id][user_id].username])>>
    ELSE <<>>

handle_leave_room(sid, room_id, user_id) ==
    /\ conn[sid] = "open"
    /\ last' = Handler("leave-room", sid, room_id, user_id, "")
    /\ pre' = rooms
    /\ UNCHANGED pend
    /\ UNCHANGED conn
    /\ rooms' = LeaveRooms(rooms, room_id, user_id)
    /\ out' = LeaveEmits(rooms, conn, sio, sid, room_id, user_id)
    /\ sio' = IF room_id \in DOMAIN rooms /\ user_id \in DOMAIN rooms[room_id]
              THEN LeaveSubs(sio, sid, room_id)
              ELSE sio

\* ------------------------------------------------------------- disconnect
\* the scan with != for == at line 49
StoredUnder_other(reg, sid) ==
    UNION {{<<r, u>> : u \in {x \in DOMAIN reg[r] : reg[r][x].sid # sid}} :
           r \in DOMAIN reg}

\* the (room_id, user_id) pairs the scan of lines 46-49 can stop at
StoredUnder(reg, sid) ==
    UNION {{<<r, u>> : u \in {x \in DOMAIN reg[r] : reg[r][x].sid = sid}} :
           r \in DOMAIN reg}

\* the connections once the transport has dropped `sid`
Dropped(c, sid) == [c EXCEPT ![sid] = "closed"]

\* `rooms` when handle_disconnect returns after the match m (lines 51, 62-63)
DisconnectRooms(reg, m) == CleanedUp(LeaveRemoved(reg, m[1], m[2]), m[1])

\* what handle_disconnect emits at the match m (lines 54-57)
DisconnectEmits(reg, c, subs, sid, m) ==
    <<EmitRoom(Dropped(c, sid), subs, m[1], "user-left",
               [userId |-> m[2], username |-> reg[m[1]][m[2]].username])>>

\* The registry and the emits handle_disconnect can end with.  The scan
\* follows the insertion order of the two dicts, which the model does not
\* keep: the match it stops at is any one of the connection's memberships.
DisconnectOutcomes(reg, c, subs, sid) ==
    IF StoredUnder(reg, sid) = {}
    THEN {[rooms |-> reg, out |-> <<>>]}
    ELSE {[rooms |-> DisconnectRooms(reg, m),
           out |-> DisconnectEmits(reg, c, subs, sid, m)] :
          m \in StoredUnder(reg, sid)}

\* The transport has dropped the connection when the handler runs; it leaves
\* every Socket.IO room once the handler has returned.
handle_disconnect(sid) ==
    /\ conn[sid] = "open"
    /\ last' = Bare("disconnect", sid)
    /\ pre' = rooms
    /\ UNCHANGED pend
    /\ conn' = Dropped(conn, sid)
    /\ sio' = [sio EXCEPT ![sid] = {}]
    /\ \E o \in DisconnectOutcomes(rooms, conn, sio, sid) :
          /\ rooms' = o.rooms
          /\ out' = o.out

\* ------------------------------------------------- offer/answer/candidate
\* the relay falling back to every open connection when the target is unknown
RelayEmits_fallback(reg, c, kind, room_id, target_user_id, data) ==
    IF room_id \in DOMAIN reg /\ target_user_id \in DOMAIN reg[room_id]
    THEN <<EmitSid(c, reg[room_id][target_user_id].sid, kind, data)>>
    ELSE <<[event |-> kind, to |-> {s \in DOMAIN c : c[s] = "open"}, data |-> data]>>

\* Lines 156-162, 175-180 and 193-198: what a relay emits.  The three
\* handlers differ in the event name and in the fields they copy from the
\* event data; the payload is passed on as it came.
RelayEmits(reg, c, kind, room_id, target_user_id, data) ==
    IF room_id \in DOMAIN reg /\ target_user_id \in DOMAIN reg[room_id]
    THEN LET target_sid == reg[room_id][target_user_id].sid IN
         <<EmitSid(c, target_sid, kind, data)>>
    ELSE <<>>

handle_offer(sid, room_id, target_user_id, from_user_id, from_username) ==
    /\ conn[sid] = "open"
    /\ last' = Handler("offer", sid, room_id, target_user_id, "")
    /\ pre' = rooms
    /\ UNCHANGED pend
    /\ out' = RelayEmits(rooms, conn, "offer", room_id, target_user_id,
                         [fromUserId |-> from_user_id, fromUsername |-> from_username])
    /\ UNCHANGED <<rooms, conn, sio>>

handle_answer(sid, room_id, target_user_id, from_user_id) ==
    /\ conn[sid] = "open"
    /\ last' = Handler("answer", sid, room_id, target_user_id, "")
    /\ pre' = rooms
    /\ UNCHANGED pend
    /\ out' = RelayEmits(rooms, conn, "answer", room_id, target_user_id,
                         [fromUserId |-> from_user_id])
    /\ UNCHANGED <<rooms, conn, sio>>

handle_ice_candidate(sid, room_id, target_user_id, from_user_id) ==
    /\ conn[sid] = "open"
    /\ last' = Handler("ice-candidate", sid, room_id, target_user_id, "")
    /\ pre' = rooms
    /\ UNCHANGED pend
    /\ out' = RelayEmits(rooms, conn, "ice-candidate", room_id, target_user_id,
                         [fromUserId |-> from_user_id])
    /\ UNCHANGED <<rooms, conn, sio>>

\* ---------------------------------------------------------- get-room-info
\* the data of the room-info event, lines 207-218
\* the usernames of a room as line 207 lists them: one entry per member, so a
\* name is counted as often as members carry it (the order is the dict's)
UsernameList(room) ==
    LET names == {room[u].username : u \in DOMAIN room}
    IN  [n \in names |-> Cardinality({u \in DOMAIN room : room[u].username = n})]

\* `if room_id and room_id in rooms` (line 206): an empty roomId is falsy
RoomInfo(reg, room_id) ==
    IF room_id # "" /\ room_id \in DOMAIN reg
    THEN [roomId |-> room_id, userCount |-> DictLen(reg[room_id]),
          users |-> UsernameList(reg[room_id])]
    ELSE [roomId |-> room_id, userCount |-> 0, users |-> EmptyDict]

handle_get_room_info(sid, room_id) ==
    /\ conn[sid] = "open"
    /\ last' = Handler("get-room-info", sid, room_id, 0, "")
    /\ pre' = rooms
    /\ UNCHANGED pend
    /\ out' = <<EmitSelf(conn, sid, "room-info", RoomInfo(rooms, room_id))>>
    /\ UNCHANGED <<rooms, conn, sio>>

\* ------------------------------------------------- handlers in segments
\* A handler suspended at an emit: the emit has computed its recipients, the
\* rest of the handler runs when the handler is resumed.  A connection has
\* one handler at a time.
NotInHandler(sid) == conn[sid] = "open" /\ pend[sid] = Idle

\* `held` is what the local variable `room` of handle_disconnect (line 47)
\* refers to: the dict registered under the room id ("registered"), or a dict
\* that `del rooms[room_id]` has taken out of the registry since, without
\* members ("empty") or with members ("members").
Suspended(p, sid, at, room_id, user_id, username) ==
    [p EXCEPT ![sid] = [at |-> at, room |-> room_id, user |-> user_id,
                        name |-> username, held |-> "registered"]]

\* pend after `del rooms[room_id]`: the suspended disconnect handlers keep
\* the deleted dict in `room`
Detached(p, reg, room_id) ==
    [s \in DOMAIN p |->
        IF p[s].at = "disconnect" /\ p[s].room = room_id /\ p[s].held = "registered"
        THEN [p[s] EXCEPT !.held = IF DictLen(reg[room_id]) = 0
                                   THEN "empty" ELSE "members"]
        ELSE p[s]]

\* lines 77-110: up to the emit of existing-users (or of room-full)
join_room_begin(sid, room_id, user_id, username) ==
    /\ NotInHandler(sid)
    /\ last' = Handler("join-room", sid, room_id, user_id, username)
    /\ pre' = rooms
    /\ UNCHANGED conn
    /\ rooms' = JoinRooms(rooms, sid, room_id, user_id, username)
    /\ LET created == JoinCreated(rooms, room_id) IN
       IF RoomIsFull(created[room_id])
       THEN /\ out' = <<EmitSelf(conn, sid, "room-full", "Room is full")>>
            /\ UNCHANGED <<sio, pend>>
       ELSE LET subs == [sio EXCEPT ![sid] = @ \cup {room_id}] IN
            /\ sio' = subs
            /\ out' = <<EmitSelf(conn, sid, "existing-users",
                                 ExistingUsers(created[room_id]))>>
            /\ pend' = Suspended(pend, sid, "join", room_id, user_id, username)

\* lines 113-116: the emit of user-joined
join_room_resume(sid) ==
    /\ pend[sid].at = "join"
    /\ last' = Handler("join-room:notify", sid, pend[sid].room, pend[sid].user,
                       pend[sid].name)
    /\ pre' = rooms
    /\ out' = <<EmitRoomSkip(conn, sio, pend[sid].room, sid, "user-joined",
                             [userId |-> pend[sid].user,
                              username |-> pend[sid].name])>>
    /\ pend' = [pend EXCEPT ![sid] = Idle]
    /\ UNCHANGED <<rooms, conn, sio>>

\* lines 124-137: up to the emit of user-left
leave_room_begin(sid, room_id, user_id) ==
    /\ NotInHandler(sid)
    /\ last' = Handler("leave-room", sid, room_id, user_id, "")
    /\ pre' = rooms
    /\ UNCHANGED conn
    /\ out' = LeaveEmits(rooms, conn, sio, sid, room_id, user_id)
    /\ IF room_id \in DOMAIN rooms /\ user_id \in DOMAIN rooms[room_id]
       THEN /\ rooms' = LeaveRemoved(rooms, room_id, user_id)
            /\ sio' = LeaveSubs(sio, sid, room_id)
            /\ pend' = Suspended(pend, sid, "leave", room_id, user_id, "")
       ELSE UNCHANGED <<rooms, sio, pend>>

\* lines 142-143: `if not rooms[room_id]` reads the registry again, and
\* raises KeyError, which ends the handler, when the room id is gone
leave_room_resume(sid) ==
    /\ pend[sid].at = "leave"
    /\ last' = Handler("leave-room:cleanup", sid, pend[sid].room, pend[sid].user, "")
    /\ pre' = rooms
    /\ out' = <<>>
    /\ UNCHANGED <<conn, sio>>
    /\ LET room_id == pend[sid].room
           done == [pend EXCEPT ![sid] = Idle]
       IN  IF room_id \in DOMAIN rooms /\ DictLen(rooms[room_id]) = 0
           THEN /\ rooms' = DictDel(rooms, room_id)
                /\ pend' = Detached(done, rooms, room_id)
           ELSE /\ UNCHANGED rooms
                /\ pend' = done

\* lines 42-57: up to the emit of user-left
disconnect_begin(sid) ==
    /\ NotInHandler(sid)
    /\ last' = Bare("disconnect", sid)
    /\ pre' = rooms
    /\ conn' = Dropped(conn, sid)
    /\ IF StoredUnder(rooms, sid) = {}
       THEN /\ out' = <<>>
            /\ sio' = [sio EXCEPT ![sid] = {}]
            /\ UNCHANGED <<rooms, pend>>
       ELSE \E m \in StoredUnder(rooms, sid) :
               /\ rooms' = LeaveRemoved(rooms, m[1], m[2])
               /\ out' = DisconnectEmits(rooms, conn, sio, sid, m)
               /\ pend' = Suspended(pend, sid, "disconnect", m[1], m[2], "")
               /\ UNCHANGED sio

\* lines 62-66: `if not room` tests the dict the scan found, `del
\* rooms[room_id]` deletes what the registry holds under the room id now,
\* and raises KeyError when the room id is gone
disconnect_resume(sid) ==
    /\ pend[sid].at = "disconnect"
    /\ last' = Handler("disconnect:cleanup", sid, pend[sid].room, pend[sid].user, "")
    /\ pre' = rooms
    /\ out' = <<>>
    /\ sio' = [sio EXCEPT ![sid] = {}]
    /\ UNCHANGED conn
    /\ LET room_id == pend[sid].room
           done == [pend EXCEPT ![sid] = Idle]
           not_room == IF pend[sid].held = "registered"
                       THEN DictLen(rooms[room_id]) = 0
                       ELSE pend[sid].held = "empty"
       IN  IF not_room /\ room_id \in DOMAIN rooms
           THEN /\ rooms' = DictDel(rooms, room_id)
                /\ pend' = Detached(done, rooms, room_id)
           ELSE /\ UNCHANGED rooms
                /\ pend' = done

\* ------------------------------------------------------------------- next
\* The events of connection s name user ids of U[s] and usernames of N.
Lifecycle(S, R, U, N) ==
    \/ \E s \in S : handle_connect(s)
    \/ \E s \in S : handle_disconnect(s)
    \/ \E s \in S, r \in R, n \in N : \E u \in U[s] : handle_join_room(s, r, u, n)
    \/ \E s \in S, r \in R : \E u \in U[s] : handle_leave_room(s, r, u)

Signaling(S, R, U, N) ==
    \/ \E s \in S, r \in R, n \in N : \E t \in U[s], f \in U[s] :
          handle_offer(s, r, t, f, n)
    \/ \E s \in S, r \in R : \E t \in U[s], f \in U[s] : handle_answer(s, r, t, f)
    \/ \E s \in S, r \in R : \E t \in U[s], f \in U[s] :
          handle_ice_candidate(s, r, t, f)
    \/ \E s \in S, r \in R : handle_get_room_info(s, r)

AnyUser == [s \in Sids |-> UserIds]

Next ==
    \/ Lifecycle(Sids, RoomIds, AnyUser, Usernames)
    \/ Signaling(Sids, RoomIds, AnyUser, Usernames)

Spec == Init /\ [][Next]_vars

\* The room-filling scenario: the events that change the registry.
CapUser == [s \in CapSids |-> IF s = 1 THEN CapUserIds ELSE {1, MAX_ROOM_SIZE + 1}]

\* Rooms whose id is the empty string, members with different usernames, and
\* the query.
InfoRoomIds == {"", "r1"}
InfoUsernames == {"ann", "bob"}

NextInfo ==
    \/ Lifecycle(Sids, InfoRoomIds, AnyUser, InfoUsernames)
    \/ \E s \in Sids, r \in InfoRoomIds : handle_get_room_info(s, r)

SpecInfo == Init /\ [][NextInfo]_vars

\* One session of two clients, for every choice of their connections, user
\* ids, usernames and room: once all connections are there, A joins the room,
\* B joins it, A sends an offer to B, B disconnects, A leaves the room.  The
\* handler that ran last tells how far the session is.
ScnRoomIds == {"r1", "r2"}

ScnJoinA ==
    /\ last.op = "connect"
    /\ \A s \in Sids : conn[s] = "open"
    /\ \E s \in Sids, r \in ScnRoomIds, u \in UserIds, n \in InfoUsernames :
          handle_join_room(s, r, u, n)

ScnJoinB ==
    /\ last.op = "join-room"
    /\ pre = EmptyDict
    /\ \E s \in Sids \ {last.sid}, u \in UserIds \ {last.user}, n \in InfoUsernames :
          handle_join_room(s, last.room, u, n)

ScnOfferAToB ==
    /\ last.op = "join-room"
    /\ pre # EmptyDict
    /\ \E a \in DOMAIN pre[last.room], n \in InfoUsernames :
          handle_offer(pre[last.room][a].sid, last.room, last.user, a, n)

ScnDisconnectB ==
    /\ last.op = "offer"
    /\ handle_disconnect(rooms[last.room][last.user].sid)

ScnLeaveA ==
    /\ last.op = "disconnect"
    /\ \E r \in DOMAIN rooms : \E a \in DOMAIN rooms[r] :
          handle_leave_room(rooms[r][a].sid, r, a)

NextScenario ==
    \/ \E s \in Sids : handle_connect(s)
    \/ ScnJoinA
    \/ ScnJoinB
    \/ ScnOfferAToB
    \/ ScnDisconnectB
    \/ ScnLeaveA

SpecScenario == Init /\ [][NextScenario]_vars

\* The lifecycle handlers in segments and the query, the handlers of
\* different connections interleaving at the emits.
NextInterleaved ==
    \/ \E s \in Sids : handle_connect(s)
    \/ \E s \in Sids, r \in RoomIds, u \in UserIds, n \in Usernames :
          join_room_begin(s, r, u, n)
    \/ \E s \in Sids : join_room_resume(s)
    \/ \E s \in Sids, r \in RoomIds, u \in UserIds : leave_room_begin(s, r, u)
    \/ \E s \in Sids : leave_room_resume(s)
    \/ \E s \in Sids : disconnect_begin(s)
    \/ \E s \in Sids : disconnect_resume(s)
    \/ \E s \in Sids, r \in RoomIds : NotInHandler(s) /\ handle_get_room_info(s, r)

SpecInterleaved == Init /\ [][NextInterleaved]_vars

NextCap == Lifecycle(CapSids, RoomIds, CapUser, Usernames)

SpecCap == Init /\ [][NextCap]_vars

\* ================================================================ claims
\* The last handler was a join-room that found room to join.
JoinSucceeded ==
    /\ last.op = "join-room"
    /\ ~RoomIsFull(JoinCreated(pre, last.room)[last.room])

\* The stored connections of a room's members.
StoredSids(room) == {room[u].sid : u \in DOMAIN room}

\* C1: in every reachable state of the room-filling scenario every room of
\* the registry holds at most MAX_ROOM_SIZE (6) members.
C1_RoomNeverOverCapacity ==
    \A r \in DOMAIN rooms : DictLen(rooms[r]) <= MAX_ROOM_SIZE

\* a join-room that found the room with 6 members, and left it with 6
C1_Witness ==
    /\ last.op = "join-room"
    /\ last.room \in DOMAIN pre
    /\ DictLen(pre[last.room]) = MAX_ROOM_SIZE
    /\ DictLen(rooms[last.room]) = MAX_ROOM_SIZE

\* C2: a join-room addressed to a room that already holds 6 members emits
\* exactly one event, room-full, to the requesting connection only, and
\* leaves the registry as it was.
C2_RoomFullRejected ==
    ( /\ last.op = "join-room"
      /\ last.room \in DOMAIN pre
      /\ DictLen(pre[last.room]) = MAX_ROOM_SIZE )
    => /\ Len(out) = 1
       /\ out[1].event = "room-full"
       /\ out[1].to = {last.sid}
       /\ rooms = pre

\* the seventh join comes from a connection other than the one that holds
\* a place in the room, while both are open
C2_Witness ==
    /\ last.op = "join-room"
    /\ last.room \in DOMAIN pre
    /\ DictLen(pre[last.room]) = MAX_ROOM_SIZE
    /\ \E s \in StoredSids(pre[last.room]) : s # last.sid /\ conn[s] = "open"
    /\ last.user \notin DOMAIN pre[last.room]

\* C3: after any sequence of completed handlers the registry contains no
\* room with zero members.
C3_NoEmptyRoom ==
    \A r \in DOMAIN rooms : DictLen(rooms[r]) >= 1

\* a leave-room or a disconnect took the last member and the room is gone
C3_Witness ==
    /\ last.op \in {"leave-room", "disconnect"}
    /\ \E r \in DOMAIN pre : DictLen(pre[r]) = 1 /\ r \notin DOMAIN rooms

\* C4: once the disconnect handler of connection c has completed, no member
\* of any room has c as its stored connection.
C4_DisconnectRemovesAll ==
    last.op = "disconnect" => StoredUnder(rooms, last.sid) = {}

\* C5: in every reachable state a connection is the stored connection of at
\* most one (room, userId) membership.
C5_OneMembershipPerConnection ==
    \A s \in DOMAIN conn : Cardinality(StoredUnder(rooms, s)) <= 1

\* C6 as claimed: for every registry state, connection, room and userId for
\* which the join succeeds, join-room followed by leave-room of the same
\* (room, userId) gives back the registry.
C6_JoinLeaveRestores ==
    \A s \in Sids, r \in RoomIds, u \in UserIds, n \in Usernames :
        ( /\ conn[s] = "open"
          /\ ~RoomIsFull(JoinCreated(rooms, r)[r]) )
        => LeaveRooms(JoinRooms(rooms, s, r, u, n), r, u) = rooms

\* C6 as amended: the same, for a userId that is not yet a member of the room.
C6_JoinLeaveRestoresFresh ==
    \A s \in Sids, r \in RoomIds, u \in UserIds, n \in Usernames :
        ( /\ conn[s] = "open"
          /\ ~RoomIsFull(JoinCreated(rooms, r)[r])
          /\ ~(r \in DOMAIN rooms /\ u \in DOMAIN rooms[r]) )
        => LeaveRooms(JoinRooms(rooms, s, r, u, n), r, u) = rooms

\* a leave-room has just undone a join-room of a new userId: the registry it
\* found is the one that join produces from the registry it left, in a room
\* that other members stay in
C6_Witness ==
    /\ last.op = "leave-room"
    /\ last.room \in DOMAIN rooms
    /\ last.user \notin DOMAIN rooms[last.room]
    /\ \E n \in Usernames :
          pre = JoinRooms(rooms, last.sid, last.room, last.user, n)

\* C7: the connection that sends a join-room is never a recipient of the
\* user-joined event of that join.
C7_JoinerNotNotified ==
    last.op = "join-room" =>
        \A i \in 1..Len(out) :
            out[i].event = "user-joined" => last.sid \notin out[i].to

\* the joiner had entered the room before, and somebody else is notified
C7_Witness ==
    /\ JoinSucceeded
    /\ last.room \in DOMAIN pre
    /\ last.sid \in StoredSids(pre[last.room])
    /\ \E i \in 1..Len(out) : out[i].event = "user-joined" /\ out[i].to # {}

\* C8: on a successful join-room the joining connection, and no other, is
\* sent existing-users listing the members the room held before the
\* insertion, and this is emitted before the user-joined of the same join.
C8_ExistingUsersFirst ==
    JoinSucceeded =>
        /\ Len(out) = 2
        /\ out[1].event = "existing-users"
        /\ out[1].to = {last.sid}
        /\ out[1].data =
              IF last.room \in DOMAIN pre
              THEN {[userId |-> u, username |-> pre[last.room][u].username] :
                       u \in DOMAIN pre[last.room]}
              ELSE {}
        /\ out[2].event = "user-joined"

\* the room had a member before the join, and another connection is open
C8_Witness ==
    /\ JoinSucceeded
    /\ last.room \in DOMAIN pre
    /\ last.user \notin DOMAIN pre[last.room]
    /\ \E s \in DOMAIN conn : s # last.sid /\ conn[s] = "open"

\* C9: on a successful join-room the connections that receive user-joined
\* are exactly the stored connections of the other members of the room
\* (the joining connection itself left out, should it hold another member).
C9_UserJoinedToMembers ==
    JoinSucceeded =>
        \A i \in 1..Len(out) :
            out[i].event = "user-joined" =>
                out[i].to = StoredSids(DictDel(rooms[last.room], last.user))
                               \ {last.sid}

\* C10: an offer, answer or ice-candidate whose target is a member of the
\* room produces exactly one event of the same kind, delivered to the stored
\* connection of that member and to no other, and leaves the registry
\* unchanged.
C10_RelayToTarget ==
    ( /\ last.op \in {"offer", "answer", "ice-candidate"}
      /\ last.room \in DOMAIN pre
      /\ last.user \in DOMAIN pre[last.room] )
    => /\ Len(out) = 1
       /\ out[1].event = last.op
       /\ out[1].to = {pre[last.room][last.user].sid}
       /\ rooms = pre

\* C11: an offer, answer or ice-candidate whose roomId is not in the registry,
\* or whose targetUserId is not a member of that room, produces no outbound
\* event to any connection and leaves the registry unchanged.
C11_RelayDropped ==
    ( /\ last.op \in {"offer", "answer", "ice-candidate"}
      /\ ~(last.room \in DOMAIN pre /\ last.user \in DOMAIN pre[last.room]) )
    => /\ out = <<>>
       /\ rooms = pre

\* a relay to a user that is not in a room other members are in, while a
\* second connection is open
C11_Witness ==
    /\ last.op \in {"offer", "answer", "ice-candidate"}
    /\ last.room \in DOMAIN pre
    /\ last.user \notin DOMAIN pre[last.room]
    /\ \E s \in DOMAIN conn : s # last.sid /\ conn[s] = "open"

\* C13: disconnecting a connection that is not the stored connection of any
\* member emits no event and leaves the registry unchanged.
C13_DisconnectOfNonMember ==
    ( /\ last.op = "disconnect"
      /\ \A r \in DOMAIN pre : \A u \in DOMAIN pre[r] : pre[r][u].sid # last.sid )
    => /\ out = <<>>
       /\ rooms = pre

\* such a disconnect while another connection has a member in a room
C13_Witness ==
    /\ last.op = "disconnect"
    /\ pre # EmptyDict
    /\ \A r \in DOMAIN pre : \A u \in DOMAIN pre[r] : pre[r][u].sid # last.sid

\* C15: get-room-info never changes the registry and answers the requester
\* with one room-info: userCount 0 and no users for a roomId that is not in
\* the registry (never created, or emptied), and for a roomId that is present
\* the number of its members and the usernames of exactly those members.
C15_RoomInfoAnswer ==
    (last.op = "get-room-info") =>
        /\ rooms = pre
        /\ Len(out) = 1
        /\ out[1].event = "room-info"
        /\ out[1].to = {last.sid}
        /\ out[1].data.roomId = last.room
        /\ IF last.room \in DOMAIN pre
           THEN /\ out[1].data.userCount = Cardinality(DOMAIN pre[last.room])
                /\ DOMAIN out[1].data.users =
                       {pre[last.room][u].username : u \in DOMAIN pre[last.room]}
                /\ \A n \in DOMAIN out[1].data.users :
                       out[1].data.users[n] =
                           Cardinality({u \in DOMAIN pre[last.room] :
                                            pre[last.room][u].username = n})
           ELSE /\ out[1].data.userCount = 0
                /\ out[1].data.users = EmptyDict

\* the same answer for the room ids that are not the empty string
C15_RoomInfoAnswerNamed ==
    (last.op = "get-room-info" /\ last.room # "") => C15_RoomInfoAnswer

C19_OverwriteIsSilent ==
    ( /\ last.op = "join-room"
      /\ last.room \in DOMAIN pre
      /\ last.user \in DOMAIN pre[last.room]
      /\ pre[last.room][last.user].sid # last.sid
      /\ Cardinality(DOMAIN pre[last.room]) < MAX_ROOM_SIZE )
    => /\ DOMAIN rooms = DOMAIN pre
       /\ DOMAIN rooms[last.room] = DOMAIN pre[last.room]
       /\ rooms[last.room][last.user] = [username |-> last.name, sid |-> last.sid]
       /\ \A u \in DOMAIN pre[last.room] \ {last.user} :
              rooms[last.room][u] = pre[last.room][u]
       /\ Len(out) = 2
       /\ out[1].event = "existing-users"
       /\ out[1].to = {last.sid}
       /\ out[2].event = "user-joined"
       /\ out[2].data = [userId |-> last.user, username |-> last.name]
       /\ last.sid \notin out[2].to

\* the overwrite while the replaced connection is open and still in the
\* Socket.IO room
C19_Witness ==
    /\ last.op = "join-room"
    /\ last.room \in DOMAIN pre
    /\ last.user \in DOMAIN pre[last.room]
    /\ pre[last.room][last.user].sid # last.sid
    /\ conn[pre[last.room][last.user].sid] = "open"
    /\ last.room \in sio[pre[last.room][last.user].sid]
    /\ rooms[last.room][last.user].sid = last.sid

\* what leave-room(m) sent by sid ends with: the registry and the emits
LeaveOutcome(sid, m) ==
    [rooms |-> LeaveRooms(rooms, m[1], m[2]),
     out |-> LeaveEmits(rooms, conn, sio, sid, m[1], m[2])]

\* the stored connections of the members of room_id in reg
MemberSids(reg, room_id) ==
    IF room_id \in DOMAIN reg
    THEN {reg[room_id][u].sid : u \in DOMAIN reg[room_id]}
    ELSE {}

\* C12: for a member (room, user) stored under connection c, the leave-room
\* (room, user) sent by c and the disconnect of c end, from the same state,
\* with the same registry and with the same user-left{userId, username}
\* delivered to the same connections, those of the members that remain.
C12_LeaveEqualsDisconnect ==
    \A s \in DOMAIN conn : \A m \in StoredUnder(rooms, s) :
        (conn[s] = "open") =>
            /\ DisconnectOutcomes(rooms, conn, sio, s) = {LeaveOutcome(s, m)}
            /\ LeaveOutcome(s, m).out[1].to = MemberSids(LeaveOutcome(s, m).rooms, m[1])

\* the same for a connection that holds no other membership, without the
\* statement on whose connections the recipients are
C12_LeaveEqualsDisconnectSingle ==
    \A s \in DOMAIN conn : \A m \in StoredUnder(rooms, s) :
        (conn[s] = "open" /\ StoredUnder(rooms, s) = {m}) =>
            DisconnectOutcomes(rooms, conn, sio, s) = {LeaveOutcome(s, m)}

\* C14: when the leave-room of a connection has removed its membership, the
\* disconnect of that connection that follows finds nothing: it emits no
\* user-left, removes no member and deletes no room.
C14_DisconnectAfterLeave ==
    \A s \in DOMAIN conn : \A m \in StoredUnder(rooms, s) :
        (conn[s] = "open") =>
            DisconnectOutcomes(LeaveOutcome(s, m).rooms, conn,
                               LeaveSubs(sio, s, m[1]), s)
                = {[rooms |-> LeaveOutcome(s, m).rooms, out |-> <<>>]}

\* the same for a connection that holds no other membership
C14_DisconnectAfterLeaveSingle ==
    \A s \in DOMAIN conn : \A m \in StoredUnder(rooms, s) :
        (conn[s] = "open" /\ StoredUnder(rooms, s) = {m}) =>
            DisconnectOutcomes(LeaveOutcome(s, m).rooms, conn,
                               LeaveSubs(sio, s, m[1]), s)
                = {[rooms |-> LeaveOutcome(s, m).rooms, out |-> <<>>]}

\* the member of the room `room` whose stored connection is not `sid`
OtherMember(room, sid) == CHOOSE u \in DOMAIN room : room[u].sid # sid

\* C16: in the session "A joins R1, B joins R1, A offers to B, B disconnects,
\* A leaves R1" from the empty registry: A receives existing-users with an
\* empty list; B receives existing-users listing A, and A receives
\* user-joined for B; B alone receives the offer, with fromUserId A; A
\* receives user-left for B and R1 holds exactly A; at the end R1 is absent.
C16_Session ==
    /\ (last.op = "join-room" /\ pre = EmptyDict) =>
          /\ out[1] = [event |-> "existing-users", to |-> {last.sid}, data |-> {}]
          /\ DOMAIN rooms = {last.room}
          /\ DOMAIN rooms[last.room] = {last.user}
    /\ (last.op = "join-room" /\ pre # EmptyDict) =>
          LET a == OtherMember(pre[last.room], last.sid) IN
          /\ out[1] = [event |-> "existing-users", to |-> {last.sid},
                       data |-> {[userId |-> a,
                                  username |-> pre[last.room][a].username]}]
          /\ out[2] = [event |-> "user-joined", to |-> {pre[last.room][a].sid},
                       data |-> [userId |-> last.user, username |-> last.name]]
    /\ (last.op = "offer") =>
          LET a == OtherMember(pre[last.room], pre[last.room][last.user].sid) IN
          /\ pre[last.room][a].sid = last.sid
          /\ Len(out) = 1
          /\ out[1].event = "offer"
          /\ out[1].to = {pre[last.room][last.user].sid}
          /\ out[1].data.fromUserId = a
    /\ (last.op = "disconnect") =>
          \E r \in DOMAIN pre :
            LET a == OtherMember(pre[r], last.sid)
                b == OtherMember(pre[r], pre[r][a].sid)
            IN  /\ out = <<[event |-> "user-left", to |-> {pre[r][a].sid},
                            data |-> [userId |-> b,
                                      username |-> pre[r][b].username]]>>
                /\ DOMAIN rooms = {r}
                /\ DOMAIN rooms[r] = {a}
                /\ rooms[r][a] = pre[r][a]
    /\ (last.op = "leave-room") => rooms = EmptyDict

\* the session at its end: A has left the room B had disconnected from
C16_Witness ==
    /\ last.op = "leave-room"
    /\ pre # EmptyDict
    /\ rooms = EmptyDict
    /\ \E s \in DOMAIN conn : conn[s] = "closed"

\* C17: with the handlers of different connections interleaving at the
\* emits, no connection starts a handler on a registry in which a room is
\* present without members.
C17_NoHandlerSeesEmptyRoom ==
    (last.op \in {"connect", "join-room", "leave-room", "disconnect", "get-room-info"})
        => \A r \in DOMAIN pre : DictLen(pre[r]) > 0

\* C20: with the handlers of different connections interleaving at the
\* emits, the cleanup of leave-room and of disconnect deletes a room id only
\* when the room registered under it has no members; it never drops a member.
C20_CleanupDeletesEmptyOnly ==
    (last.op \in {"leave-room:cleanup", "disconnect:cleanup"})
        => \A r \in DOMAIN pre : r \notin DOMAIN rooms => DictLen(pre[r]) = 0

====
